---- MODULE Spec2Model ----
(***************************************************************************)
(* Verification model of the cloud-blocks naming and stage utilities:      *)
(*   generateResourceName, generateS3BucketName (positional variants with  *)
(*   hand-written checks and object variants validated by a zod schema),   *)
(*   getStage (switch variant and trim+lowercase variant) and              *)
(*   getRemovalPolicyFromStage (both variants).                            *)
(*                                                                         *)
(* A JavaScript string is a sequence of one-character strings.  The value  *)
(* undefined of an optional parameter is the sentinel Undefined.           *)
(***************************************************************************)
EXTENDS Integers, Sequences, FiniteSets, TLC

VARIABLES parts, called, outcome, rawStage, stageOut, policy

\* the construct tree: the Tag aspects registered on each node, how many of
\* them synthesis has invoked, the contents of each node's TagManager, the
\* error annotations of each node, the RequiredTagsChecker's key list, the
\* and the nodes the checker has visited
VARIABLES registered, applied, tagsOf, annotations, requiredTags, visited

tagVars ==
  <<registered, applied, tagsOf, annotations, requiredTags, visited>>

\* the props object given to the IdempotencyTable constructor and the table
\* the constructor built from it
VARIABLES userProps, table

tableVars == <<userProps, table>>

\* the props object given to the ApiCloudFrontDistribution constructor and
\* what the constructor built or threw
VARIABLES distProps, distribution

distVars == <<distProps, distribution>>

\* a CustomStack: the props it was constructed with, its fields
\* isDashboardEnabled and dashboard, the arrays on the heap (the widgets
\* field and the array the last getWidgets call returned), the reference the
\* caller holds, the result of the last call, and the widgets passed to
\* addWidget and addWidgets so far
VARIABLES stackProps, isDashboardEnabled, dashboard, heap, returned, result,
          passed

stackVars ==
  <<stackProps, isDashboardEnabled, dashboard, heap, returned, result, passed>>

vars ==
  <<parts, called, outcome, rawStage, stageOut, policy, tagVars, tableVars,
    distVars, stackVars>>

(***************************************************************************)
(* Bounds of the explored input space.                                     *)
(***************************************************************************)
\* long service names have MinFill..MaxFill characters
MinFill == 47
MaxFill == 53
\* at most MaxWs whitespace characters are put on each side of a stage label
MaxWs == 2
\* at most MaxTagEntries Tag aspects are registered in one construct tree
MaxTagEntries == 2
\* an array of widgets holds at most MaxWidgets widgets
MaxWidgets == 2

(***************************************************************************)
(* Characters and strings                                                  *)
(***************************************************************************)
Undefined == <<"undefined">>

UpperLetters ==
  <<"A","B","C","D","E","F","G","H","I","J","K","L","M",
    "N","O","P","Q","R","S","T","U","V","W","X","Y","Z">>

LowerLetters ==
  <<"a","b","c","d","e","f","g","h","i","j","k","l","m",
    "n","o","p","q","r","s","t","u","v","w","x","y","z">>

Digits == {"0","1","2","3","4","5","6","7","8","9"}

\* the characters String.prototype.trim removes that occur in the inputs
WhiteSpace == {" ", "\t", "\n"}

Range(s) == {s[i] : i \in DOMAIN s}

\* the case mapping of the letters A-Z
UpperToLower ==
  [c \in Range(UpperLetters) |->
     LowerLetters[CHOOSE i \in DOMAIN UpperLetters : UpperLetters[i] = c]]

LowerToUpper ==
  [c \in Range(LowerLetters) |->
     UpperLetters[CHOOSE i \in DOMAIN LowerLetters : LowerLetters[i] = c]]

\* String.prototype.toLowerCase on one character
LowerChar(c) == IF c \in DOMAIN UpperToLower THEN UpperToLower[c] ELSE c

\* String.prototype.toLowerCase
ToLowerCase(s) == [i \in 1..Len(s) |-> LowerChar(s[i])]

\* String.prototype.toUpperCase on one character (used to build inputs only)
UpperChar(c) == IF c \in DOMAIN LowerToUpper THEN LowerToUpper[c] ELSE c

\* String.prototype.trim: drop the whitespace at both ends
RECURSIVE TrimStart(_)
TrimStart(s) ==
  IF s # <<>> /\ Head(s) \in WhiteSpace THEN TrimStart(Tail(s)) ELSE s

RECURSIVE TrimEnd(_)
TrimEnd(s) ==
  IF s # <<>> /\ s[Len(s)] \in WhiteSpace
  THEN TrimEnd(SubSeq(s, 1, Len(s) - 1))
  ELSE s

Trim(s) == TrimEnd(TrimStart(s))

\* mutant of Truthy: only undefined is dropped, '' is kept
TruthyKeepsEmpty(x) == x # Undefined

\* Boolean(x) for a string or undefined: undefined and '' are falsy
Truthy(x) == x # Undefined /\ x # <<>>

\* Array.prototype.filter(Boolean)
FilterBoolean(list) == SelectSeq(list, Truthy)

\* Array.prototype.join(sep)
RECURSIVE Join(_, _)
Join(list, sep) ==
  IF list = <<>> THEN <<>>
  ELSE IF Len(list) = 1 THEN list[1]
  ELSE list[1] \o sep \o Join(Tail(list), sep)

\* without filter(Boolean): join('-') renders undefined and '' as '' and
\* still puts a separator next to them
ComposeNameUnfiltered(list) ==
  ToLowerCase(Join([i \in DOMAIN list |->
                      IF Truthy(list[i]) THEN list[i] ELSE <<>>], <<"-">>))

\* [...].filter(Boolean).join('-').toLowerCase()
ComposeName(list) == ToLowerCase(Join(FilterBoolean(list), <<"-">>))

(***************************************************************************)
(* Outcome of a call of a name generator: the returned name, or the thrown *)
(* Error.  The message of the Error is kept as its parts: the generated    *)
(* name interpolated into it and the list of violated rules it states,     *)
(* each with the numeric limit its text quotes (0 for the pattern rule).   *)
(***************************************************************************)
NoOutcome == [kind |-> "none", name |-> <<>>, issues |-> <<>>]

\* return name;
Return(name) == [kind |-> "return", name |-> name, issues |-> <<>>]

\* mutant of GeneratedError: the name in the message is cut to the limit
GeneratedErrorTruncated(name, issue) ==
  [kind |-> "throw", name |-> SubSeq(name, 1, issue.limit),
   issues |-> <<issue>>]

\* throw new Error(`Generated ... "${name}" <rule text with ${LIMIT}>`)
GeneratedError(name, issue) ==
  [kind |-> "throw", name |-> name, issues |-> <<issue>>]

\* throw new Error(`Error generating ... "${name}": ${combinedMessage}`)
\* where combinedMessage joins the messages of all zod issues with ' '
SchemaError(name, issues) ==
  [kind |-> "throw", name |-> name, issues |-> issues]

TooShort(limit) == [rule |-> "min", limit |-> limit]
TooLong(limit) == [rule |-> "max", limit |-> limit]
InvalidCharacters == [rule |-> "regex", limit |-> 0]

(***************************************************************************)
(* The pattern /^[a-z0-9][a-z0-9.-]*[a-z0-9]$/                             *)
(***************************************************************************)
IsLowerAlnum(c) == c \in Range(LowerLetters) \cup Digits

\* mutant of S3NamePattern: /^[a-z0-9][a-z0-9.-]*$/, the last character is
\* not required to be a letter or digit
S3NamePatternOpenEnd(s) ==
  /\ Len(s) >= 1
  /\ IsLowerAlnum(s[1])
  /\ \A i \in 2..Len(s) : IsLowerAlnum(s[i]) \/ s[i] \in {".", "-"}

S3NamePattern(s) ==
  /\ Len(s) >= 2
  /\ IsLowerAlnum(s[1])
  /\ IsLowerAlnum(s[Len(s)])
  /\ \A i \in 2..(Len(s) - 1) : IsLowerAlnum(s[i]) \/ s[i] \in {".", "-"}

(***************************************************************************)
(* zod string schemas: a schema is the list of its checks in declaration   *)
(* order; parse runs every check and collects one issue per failed check.  *)
(***************************************************************************)
\* mutant of resourceNameSchema: the bucket pattern is checked as well
resourceNameSchemaWithPattern == <<TooLong(64), InvalidCharacters>>

\* z.string().max(64, '...64 characters.')
resourceNameSchema == <<TooLong(64)>>

\* mutant of s3BucketNameSchema: the pattern is checked before the lengths
s3BucketNameSchemaPatternFirst == <<InvalidCharacters, TooShort(3), TooLong(63)>>

\* z.string().min(3, ...).max(63, ...).regex(/^[a-z0-9][a-z0-9.-]*[a-z0-9]$/, ...)
s3BucketNameSchema == <<TooShort(3), TooLong(63), InvalidCharacters>>

CheckFails(chk, s) ==
  CASE chk.rule = "min" -> Len(s) < chk.limit
    [] chk.rule = "max" -> Len(s) > chk.limit
    [] chk.rule = "regex" -> ~S3NamePattern(s)

\* error.issues of schema.parse(s); empty when parse succeeds
ZodIssues(schema, s) == SelectSeq(schema, LAMBDA chk : CheckFails(chk, s))

(***************************************************************************)
(* generateResourceName                                                    *)
(***************************************************************************)
MAX_LENGTH == 64

\* mutant of ExceedsMaxLength: the comparison is not strict
ExceedsMaxLengthInclusive(name) == Len(name) >= MAX_LENGTH

\* name.length > MAX_LENGTH
ExceedsMaxLength(name) == Len(name) > MAX_LENGTH

\* positional variant: generateResourceName(stage, service, resource, suffix?, region?)
ResourceNamePositional(stage, service, resource, suffix, region) ==
  LET name == ComposeName(<<stage, service, resource, suffix, region>>)
  IN  IF ExceedsMaxLength(name)
      THEN GeneratedError(name, TooLong(MAX_LENGTH))
      ELSE Return(name)

\* the suffix is put before the resource
ResourceNameSuffixFirst(stage, service, resource, suffix, region) ==
  LET name == ComposeName(<<stage, service, suffix, resource, region>>)
      issues == ZodIssues(resourceNameSchema, name)
  IN  IF issues # <<>> THEN SchemaError(name, issues) ELSE Return(name)

\* object variant: generateResourceName({stage, service, resource, suffix, region})
ResourceName(stage, service, resource, suffix, region) ==
  LET name == ComposeName(<<stage, service, resource, suffix, region>>)
      issues == ZodIssues(resourceNameSchema, name)
  IN  IF issues # <<>> THEN SchemaError(name, issues) ELSE Return(name)

(***************************************************************************)
(* generateS3BucketName                                                    *)
(***************************************************************************)
BUCKET_MIN_LENGTH == 3
BUCKET_MAX_LENGTH == 63
RESOURCE_TYPE == <<"b","u","c","k","e","t">>

\* mutant of BucketComponents: the resource type is put last
BucketComponentsTypeLast(stage, service, suffix, region) ==
  <<stage, service, suffix, region, RESOURCE_TYPE>>

\* [stage, service, RESOURCE_TYPE, suffix, region]
BucketComponents(stage, service, suffix, region) ==
  <<stage, service, RESOURCE_TYPE, suffix, region>>

\* sequential checks without the character-class test
S3BucketNamePositionalNoPattern(stage, service, suffix, region) ==
  LET name == ComposeName(BucketComponents(stage, service, suffix, region))
  IN  IF Len(name) < BUCKET_MIN_LENGTH
      THEN GeneratedError(name, TooShort(BUCKET_MIN_LENGTH))
      ELSE IF Len(name) > BUCKET_MAX_LENGTH
      THEN GeneratedError(name, TooLong(BUCKET_MAX_LENGTH))
      ELSE Return(name)

\* positional variant: generateS3BucketName(stage, service, suffix?, region?)
S3BucketNamePositional(stage, service, suffix, region) ==
  LET name == ComposeName(BucketComponents(stage, service, suffix, region))
  IN  IF Len(name) < BUCKET_MIN_LENGTH
      THEN GeneratedError(name, TooShort(BUCKET_MIN_LENGTH))
      ELSE IF Len(name) > BUCKET_MAX_LENGTH
      THEN GeneratedError(name, TooLong(BUCKET_MAX_LENGTH))
      ELSE IF ~S3NamePattern(name)
      THEN GeneratedError(name, InvalidCharacters)
      ELSE Return(name)

\* object variant: generateS3BucketName({stage, service, suffix, region})
S3BucketName(stage, service, suffix, region) ==
  LET name == ComposeName(BucketComponents(stage, service, suffix, region))
      issues == ZodIssues(s3BucketNameSchema, name)
  IN  IF issues # <<>> THEN SchemaError(name, issues) ELSE Return(name)

(***************************************************************************)
(* Stage enum, getStage and getRemovalPolicyFromStage                      *)
(***************************************************************************)
Develop == <<"d","e","v","e","l","o","p">>
Staging == <<"s","t","a","g","i","n","g">>
Prod == <<"p","r","o","d">>
Test == <<"t","e","s","t">>

RETAIN == "RETAIN"
DESTROY == "DESTROY"

\* switch variant: exact match on prod, staging, test; otherwise lowercase
getStageSwitch(stage) ==
  CASE stage = Prod -> Prod
    [] stage = Staging -> Staging
    [] stage = Test -> Test
    [] OTHER -> ToLowerCase(stage)

\* a normalisation that also maps every label starting with 'prod' to 'prod'
getStageTrimPrefix(stage) ==
  LET t == Trim(ToLowerCase(stage))
  IN  IF Len(t) >= Len(Prod) /\ SubSeq(t, 1, Len(Prod)) = Prod THEN Prod ELSE t

\* return stage.toLowerCase().trim();
getStageTrim(stage) == Trim(ToLowerCase(stage))

\* mutant of getRemovalPolicyFromStageIncludes: the stage is not trimmed
getRemovalPolicyFromStageNoTrim(stage) ==
  IF ToLowerCase(stage) \in {Prod, Staging} THEN RETAIN ELSE DESTROY

\* [Stage.Prod, Stage.Staging].includes(stage.toLowerCase().trim())
getRemovalPolicyFromStageIncludes(stage) ==
  IF Trim(ToLowerCase(stage)) \in {Prod, Staging} THEN RETAIN ELSE DESTROY

\* stage.toLowerCase().trim() !== Stage.prod && ... !== Stage.staging
getRemovalPolicyFromStageCompare(stage) ==
  IF Trim(ToLowerCase(stage)) # Prod /\ Trim(ToLowerCase(stage)) # Staging
  THEN DESTROY
  ELSE RETAIN

(***************************************************************************)
(* The construct tree of the aspects: two stacks under the app and a       *)
(* bucket in the first stack.                                              *)
(***************************************************************************)
Stack1 == "TestStack1"
Stack2 == "TestStack2"
Bucket == "TestBucket"

Stacks == {Stack1, Stack2}
Nodes == Stacks \cup {Bucket}

\* every construct passes: the instanceof guard is gone
IsStackAnyConstruct(node) == node \in Nodes

\* node instanceof Stack
IsStack(node) == node \in Stacks

\* every stack reports under the name of the first one
StackNameOfFirst(node) == Stack1

\* node.stackName
StackName(node) == node

\* the nodes whose Tag aspects are inherited by node, outermost first
Ancestors(node) == IF node = Bucket THEN <<Stack1>> ELSE <<>>

K_Environment == <<"E","n","v","i","r","o","n","m","e","n","t">>
K_environment == <<"e","n","v","i","r","o","n","m","e","n","t">>
K_Owner == <<"O","w","n","e","r">>
K_OwnerPadded == <<" ","O","w","n","e","r">>

TagKeys == {K_Environment, K_Owner}
TagValues == {"production", "development"}

NoTags == <<>>

(***************************************************************************)
(* TagManager of a node: a map from tag key to value                       *)
(***************************************************************************)
\* a TagManager in which the first value set for a key stays
setTagKeepFirst(tags, key, value) ==
  IF key \in DOMAIN tags THEN tags
  ELSE [k \in (DOMAIN tags) \cup {key} |-> IF k = key THEN value ELSE tags[k]]

\* TagManager.setTag(key, value) at the default priority of Tags.of().add:
\* equal priorities, so the later call replaces the value
setTag(tags, key, value) ==
  [k \in (DOMAIN tags) \cup {key} |-> IF k = key THEN value ELSE tags[k]]

\* a TagManager that always reports tags
hasTagsAlways(tags) == TRUE

\* TagManager.hasTags()
hasTags(tags) == DOMAIN tags # {}

\* Object.keys(node.tags.tagValues())
tagKeysOf(tags) == DOMAIN tags

\* Tag aspects that set nothing
applyTagsNone(tags, entries) == tags

\* the Tag aspects in entries invoked on a TagManager, in order
RECURSIVE applyTags(_, _)
applyTags(tags, entries) ==
  IF entries = <<>> THEN tags
  ELSE applyTags(setTag(tags, Head(entries).key, Head(entries).value),
                 Tail(entries))

\* Tags.of(node).add(key, value): registers a Tag aspect on the node
TagsOfAdd(reg, node, key, value) ==
  [reg EXCEPT ![node] = Append(@, [key |-> key, value |-> value])]

\* for (const [key, value] of Object.entries(tags)) Tags.of(stack).add(key, value)
RECURSIVE addEntries(_, _, _)
addEntries(reg, stack, entries) ==
  IF entries = <<>> THEN reg
  ELSE addEntries(TagsOfAdd(reg, stack, Head(entries).key, Head(entries).value),
                  stack, Tail(entries))

(***************************************************************************)
(* Annotations.of(node).addError(message)                                  *)
(***************************************************************************)
\* `There are no tags on "${node.stackName}"`
NoTagsError(stackName) ==
  [kind |-> "noTags", tag |-> <<>>, stack |-> stackName]

\* `"${tag}" is missing from stack with id "${node.stackName}"`
MissingError(tag, stackName) ==
  [kind |-> "missing", tag |-> tag, stack |-> stackName]

\* a comparison that trims and lowercases both keys
TagMissingNormalised(tags, tag) ==
  \A t \in DOMAIN tags : ToLowerCase(Trim(t)) # ToLowerCase(Trim(tag))

\* tag is not among the keys of the stack's tags
\* !Object.keys(node.tags.tagValues()).includes(tag)
TagMissing(tags, tag) == tag \notin tagKeysOf(tags)

\* a loop that stops at the first key it finds missing
RECURSIVE missingErrorsFirstOnly(_, _, _)
missingErrorsFirstOnly(required, tags, stackName) ==
  IF required = <<>> THEN <<>>
  ELSE IF Head(required) \notin DOMAIN tags
       THEN <<[kind |-> "missing", tag |-> Head(required), stack |-> stackName]>>
       ELSE missingErrorsFirstOnly(Tail(required), tags, stackName)

\* the errors of the loop over this.requiredTags, in iteration order
RECURSIVE missingErrors(_, _, _)
missingErrors(required, tags, stackName) ==
  IF required = <<>> THEN <<>>
  ELSE (IF TagMissing(tags, Head(required))
        THEN <<MissingError(Head(required), stackName)>>
        ELSE <<>>)
       \o missingErrors(Tail(required), tags, stackName)

\* a visit that reports the missing keys before the absence of tags
visitErrorsNoTagsLast(node, tags, required) ==
  IF node \notin Stacks THEN <<>>
  ELSE missingErrors(required, tags, node)
       \o (IF DOMAIN tags = {} THEN <<NoTagsError(node)>> ELSE <<>>)

\* the errors RequiredTagsChecker.visit(node) adds, in the order it adds them
visitErrors(node, tags, required) ==
  IF ~IsStack(node) THEN <<>>
  ELSE (IF ~hasTags(tags) THEN <<NoTagsError(StackName(node))>> ELSE <<>>)
       \o missingErrors(required, tags, StackName(node))

(***************************************************************************)
(* IdempotencyTable: a props object is a function from the keys it holds   *)
(* to their values; a key given the value undefined is held.               *)
(***************************************************************************)
JsUndefined == "undefined"

\* dynamodb.TableEncryption
AWS_MANAGED == "AWS_MANAGED"
CUSTOMER_MANAGED == "CUSTOMER_MANAGED"

\* dynamodb.AttributeType
AttrSTRING == "S"
AttrNUMBER == "N"

EmptyProps == [k \in {} |-> JsUndefined]

\* { ...a, ...b }: the keys of both, b's value where both hold the key
Spread(a, b) ==
  [k \in (DOMAIN a) \cup (DOMAIN b) |-> IF k \in DOMAIN b THEN b[k] ELSE a[k]]

\* defaultProps, with the contributorInsightsSpecification the try block adds
defaultProps ==
  [ encryption |-> AWS_MANAGED,
    pointInTimeRecoverySpecification |->
      [pointInTimeRecoveryEnabled |-> FALSE,
       recoveryPeriodInDays |-> JsUndefined],
    contributorInsightsSpecification |-> [enabled |-> FALSE] ]

mandatoryProps ==
  [ partitionKey |-> [name |-> "id", type |-> AttrSTRING],
    timeToLiveAttribute |-> "expiration" ]

\* a merge in which the user's props come last
tablePropsUserLast(props) ==
  Spread(Spread(defaultProps, mandatoryProps), props)

\* { ...defaultProps, ...props, ...mandatoryProps }
tableProps(props) ==
  Spread(Spread(defaultProps, props), mandatoryProps)

\* props.pointInTimeRecoverySpecification?.pointInTimeRecoveryEnabled
pointInTimeRecoveryEnabled(props) ==
  /\ "pointInTimeRecoverySpecification" \in DOMAIN props
  /\ "pointInTimeRecoveryEnabled" \in
       DOMAIN props["pointInTimeRecoverySpecification"]
  /\ props["pointInTimeRecoverySpecification"]["pointInTimeRecoveryEnabled"]

NoTable == [props |-> EmptyProps, removalPolicy |-> "none", suppressions |-> {}]

\* new IdempotencyTable(scope, id, props): the table, the removal policy
\* applied to it and the cdk-nag suppressions added to it
IdempotencyTable(props) ==
  [ props |-> tableProps(props),
    removalPolicy |->
      IF "removalPolicy" \in DOMAIN props THEN props["removalPolicy"]
      ELSE "none",
    suppressions |->
      IF ~pointInTimeRecoveryEnabled(props) THEN {"AwsSolutions-DDB3"} ELSE {} ]

(***************************************************************************)
(* CustomStack                                                             *)
(***************************************************************************)
\* the dashboard field before a dashboard is created (undefined)
NoDashboard == [exists |-> FALSE, widgets |-> <<>>]

\* references of the arrays: the widgets field, and the array the caller
\* got from getWidgets
WidgetsRef == 1
ReturnedRef == 2

\* public readonly widgets: cloudwatch.IWidget[] = []
EmptyHeap == [r \in {WidgetsRef, ReturnedRef} |-> <<>>]

NoResult == [kind |-> "none", value |-> <<>>]

\* the description widget the CloudWatchDashboard constructor adds first
DescriptionWidget == "description"

\* createDashboard defaults to true
createDashboardDefaultTrue(props) ==
  IF "createDashboard" \in DOMAIN props THEN props["createDashboard"]
  ELSE TRUE

\* const { createDashboard = false, ... } = props
createDashboardOf(props) ==
  IF "createDashboard" \in DOMAIN props THEN props["createDashboard"]
  ELSE FALSE

\* new CloudWatchDashboard(this, id, { ..., initialWidgets }): the
\* description widget, then the initial widgets
CloudWatchDashboard(props) ==
  [exists |-> TRUE,
   widgets |-> <<DescriptionWidget>> \o
               (IF "initialWidgets" \in DOMAIN props
                THEN props["initialWidgets"] ELSE <<>>)]

\* the constructor: isDashboardEnabled and dashboard
CustomStack(props) ==
  [isDashboardEnabled |-> createDashboardOf(props),
   dashboard |-> IF createDashboardOf(props) THEN CloudWatchDashboard(props)
                 ELSE NoDashboard]

\* items are put in front of the array
pushFront(h, ref, items) == [h EXCEPT ![ref] = items \o @]

\* array.push(...items)
push(h, ref, items) == [h EXCEPT ![ref] = @ \o items]

\* array.pop()
pop(h, ref) == [h EXCEPT ![ref] = SubSeq(@, 1, Len(@) - 1)]

\* if (this.isDashboardEnabled && this.dashboard) this.dashboard.addWidgets(...)
forward(enabled, d, items) ==
  IF enabled /\ d.exists THEN [d EXCEPT !.widgets = @ \o items] ELSE d

\* the array itself is handed out
spreadCopyAlias(h, ref) == [heap |-> h, ref |-> ref]

\* [...array]: a new array with the same elements
spreadCopy(h, ref) ==
  [heap |-> [h EXCEPT ![ReturnedRef] = h[ref]], ref |-> ReturnedRef]

\* getDashboard(): the dashboard, or the error thrown
getDashboardResult(enabled, d) ==
  IF ~enabled THEN [kind |-> "throwDisabled", value |-> <<>>]
  ELSE IF ~d.exists THEN [kind |-> "throwInternal", value |-> <<>>]
  ELSE [kind |-> "dashboard", value |-> d.widgets]

(***************************************************************************)
(* ApiCloudFrontDistribution                                               *)
(***************************************************************************)
\* cloudFront.PriceClass
PRICE_CLASS_100 == "PriceClass_100"
PRICE_CLASS_200 == "PriceClass_200"
PRICE_CLASS_ALL == "PriceClass_All"

\* service and suffix of the access-logs bucket name
OMS_DISTRIBUTION == <<"o","m","s","-","d","i","s","t","r","i","b","u","t","i","o","n">>
ACCESS_LOGS == <<"a","c","c","e","s","s","-","l","o","g","s">>

\* bucketName: generateS3BucketName({ stage: props.stageName,
\*   service: 'oms-distribution', suffix: 'access-logs' })
accessLogsBucketName(props) ==
  S3BucketName(props["stageName"], OMS_DISTRIBUTION, ACCESS_LOGS, Undefined)

\* priceClass: props.priceClass ? props.priceClass : PRICE_CLASS_100
priceClassOf(props) ==
  IF "priceClass" \in DOMAIN props THEN props["priceClass"]
  ELSE PRICE_CLASS_100

\* enabled: props.enabled ? props.enabled : true
enabledOf(props) ==
  IF "enabled" \in DOMAIN props /\ props["enabled"] THEN props["enabled"]
  ELSE TRUE

\* props.alarmConfiguration && !props.monitoringFacade
alarmsWithoutFacade(props) ==
  "alarmConfiguration" \in DOMAIN props /\ "monitoringFacade" \notin DOMAIN props

NoDistribution ==
  [kind |-> "none", enabled |-> FALSE, priceClass |-> "none",
   comment |-> <<>>, bucketName |-> <<>>, edgeLambdas |-> 0,
   monitored |-> FALSE, error |-> "none"]

\* new ApiCloudFrontDistribution(scope, id, props): the distribution it
\* creates, or the error it throws
ApiCloudFrontDistribution(props) ==
  LET bucketName == accessLogsBucketName(props)
  IN  IF bucketName.kind = "throw"
      THEN [NoDistribution EXCEPT !.kind = "throw", !.error = "bucketName"]
      ELSE IF alarmsWithoutFacade(props)
      THEN [NoDistribution EXCEPT !.kind = "throw",
                                  !.error = "alarmConfiguration"]
      ELSE [kind |-> "created",
            enabled |-> enabledOf(props),
            priceClass |-> priceClassOf(props),
            comment |-> props["stageName"],
            bucketName |-> bucketName.name,
            edgeLambdas |-> IF "edgeFunction" \in DOMAIN props THEN 1 ELSE 0,
            monitored |-> "monitoringFacade" \in DOMAIN props,
            error |-> "none"]

(***************************************************************************)
(* Inputs                                                                  *)
(***************************************************************************)
Fill(c, n) == [i \in 1..n |-> c]

StageValues ==
  { <<>>, <<"a">>, <<"A">>, Prod, Staging, <<"D","e","v","e","l","o","p">>, <<"p","r","_","1">> }

ServiceValues ==
  { <<>>, <<"B">>, <<"/">>, <<"o","r","d","e","r","s">>, <<"m","y","_","s","e","r","v","i","c","e">>, <<"l","o","g","s",".">> }
  \cup { Fill(c, n) : c \in {"a", "Z"}, n \in MinFill..MaxFill }

ResourceValues == { <<>>, <<"q","u","e","u","e">>, <<"Q","U","E","U","E">>, RESOURCE_TYPE }

SuffixValues == { Undefined, <<>>, <<"d","l","q">>, <<"V","2">>, <<"-">> }

RegionValues == { Undefined, <<>>, <<"e","u","-","w","e","s","t","-","2">> }

PartsValues ==
  [stage : StageValues, service : ServiceValues, resource : ResourceValues,
   suffix : SuffixValues, region : RegionValues]

\* a stage label in three letter cases, with whitespace around it
StageLabels ==
  { <<>>, Prod, Staging, Test, Develop, <<"d","e","v">>, <<"p","r","-","1","2","3">>, <<"p","r","o","d","u","c","t","i","o","n">>,
    <<"p","r","o"," ","d">> }

Capitalize(s) ==
  IF s = <<>> THEN s ELSE <<UpperChar(Head(s))>> \o Tail(s)

Cased(s) == { s, [i \in 1..Len(s) |-> UpperChar(s[i])], Capitalize(s) }

RawStageValues ==
  { Fill(w, l) \o t \o Fill(w, r) :
      w \in {" ", "\t"}, l \in 0..MaxWs, r \in 0..MaxWs,
      t \in UNION { Cased(s) : s \in StageLabels } }

NoParts ==
  [stage |-> <<>>, service |-> <<>>, resource |-> <<>>,
   suffix |-> Undefined, region |-> Undefined]

\* no CustomStack is constructed
StackIdle ==
  /\ stackProps = EmptyProps
  /\ isDashboardEnabled = FALSE
  /\ dashboard = NoDashboard
  /\ heap = EmptyHeap
  /\ returned = 0
  /\ result = NoResult
  /\ passed = <<>>

\* no distribution is constructed
DistributionIdle ==
  /\ distProps = EmptyProps
  /\ distribution = NoDistribution

\* no table is constructed
TableIdle ==
  /\ userProps = EmptyProps
  /\ table = NoTable

\* no construct tree is built
TagsIdle ==
  /\ registered = [n \in Nodes |-> <<>>]
  /\ applied = [n \in Nodes |-> 0]
  /\ tagsOf = [n \in Nodes |-> NoTags]
  /\ annotations = [n \in Nodes |-> <<>>]
  /\ requiredTags = <<>>
  /\ visited = {}

(***************************************************************************)
(* Specification of the name generators: the components are drawn, then    *)
(* the generators are applied to them.                                     *)
(***************************************************************************)
InitNames ==
  /\ parts \in PartsValues
  /\ called = "none"
  /\ outcome = NoOutcome
  /\ rawStage = <<>>
  /\ stageOut = <<>>
  /\ policy = "none"
  /\ TagsIdle
  /\ TableIdle
  /\ DistributionIdle
  /\ StackIdle

generateResourceNamePositional ==
  /\ called' = "generateResourceNamePositional"
  /\ outcome' = ResourceNamePositional(parts.stage, parts.service,
                                       parts.resource, parts.suffix,
                                       parts.region)
  /\ UNCHANGED <<parts, rawStage, stageOut, policy, tagVars, tableVars, distVars, stackVars>>

generateResourceName ==
  /\ called' = "generateResourceName"
  /\ outcome' = ResourceName(parts.stage, parts.service, parts.resource,
                             parts.suffix, parts.region)
  /\ UNCHANGED <<parts, rawStage, stageOut, policy, tagVars, tableVars, distVars, stackVars>>

generateS3BucketNamePositional ==
  /\ called' = "generateS3BucketNamePositional"
  /\ outcome' = S3BucketNamePositional(parts.stage, parts.service,
                                       parts.suffix, parts.region)
  /\ UNCHANGED <<parts, rawStage, stageOut, policy, tagVars, tableVars, distVars, stackVars>>

generateS3BucketName ==
  /\ called' = "generateS3BucketName"
  /\ outcome' = S3BucketName(parts.stage, parts.service, parts.suffix,
                             parts.region)
  /\ UNCHANGED <<parts, rawStage, stageOut, policy, tagVars, tableVars, distVars, stackVars>>

NextNames ==
  \/ generateResourceNamePositional
  \/ generateResourceName
  \/ generateS3BucketNamePositional
  \/ generateS3BucketName

SpecNames == InitNames /\ [][NextNames]_vars

(***************************************************************************)
(* Specification of the stage utilities: a raw stage string is drawn, then *)
(* the utilities are applied to it.                                        *)
(***************************************************************************)
InitStage ==
  /\ rawStage \in RawStageValues
  /\ called = "none"
  /\ stageOut = <<>>
  /\ policy = "none"
  /\ parts = NoParts
  /\ outcome = NoOutcome
  /\ TagsIdle
  /\ TableIdle
  /\ DistributionIdle
  /\ StackIdle

getStageSwitchCall ==
  /\ called' = "getStageSwitch"
  /\ stageOut' = getStageSwitch(rawStage)
  /\ policy' = "none"
  /\ UNCHANGED <<rawStage, parts, outcome, tagVars, tableVars, distVars, stackVars>>

getStageTrimCall ==
  /\ called' = "getStageTrim"
  /\ stageOut' = getStageTrim(rawStage)
  /\ policy' = "none"
  /\ UNCHANGED <<rawStage, parts, outcome, tagVars, tableVars, distVars, stackVars>>

getRemovalPolicyFromStageIncludesCall ==
  /\ called' = "getRemovalPolicyFromStageIncludes"
  /\ policy' = getRemovalPolicyFromStageIncludes(rawStage)
  /\ stageOut' = <<>>
  /\ UNCHANGED <<rawStage, parts, outcome, tagVars, tableVars, distVars, stackVars>>

getRemovalPolicyFromStageCompareCall ==
  /\ called' = "getRemovalPolicyFromStageCompare"
  /\ policy' = getRemovalPolicyFromStageCompare(rawStage)
  /\ stageOut' = <<>>
  /\ UNCHANGED <<rawStage, parts, outcome, tagVars, tableVars, distVars, stackVars>>

\* const stage = getStage(rawStage);
\* const removalPolicy = getRemovalPolicyFromStage(stage);
getRemovalPolicyOfStageCall ==
  /\ called \in {"getStageSwitch", "getStageTrim"}
  /\ policy' = getRemovalPolicyFromStageIncludes(stageOut)
  /\ called' = IF called = "getStageSwitch" THEN "getRemovalPolicyOfGetStageSwitch"
               ELSE "getRemovalPolicyOfGetStageTrim"
  /\ UNCHANGED <<rawStage, stageOut, parts, outcome, tagVars, tableVars,
                 distVars, stackVars>>

\* getStage(getStage(rawStage)), with one variant
getStageOfStageCall ==
  /\ called \in {"getStageSwitch", "getStageTrim"}
  /\ stageOut' = IF called = "getStageSwitch" THEN getStageSwitch(stageOut)
                 ELSE getStageTrim(stageOut)
  /\ called' = IF called = "getStageSwitch" THEN "getStageSwitchTwice"
               ELSE "getStageTrimTwice"
  /\ UNCHANGED <<rawStage, policy, parts, outcome, tagVars, tableVars,
                 distVars, stackVars>>

NextStage ==
  \/ getStageSwitchCall
  \/ getStageTrimCall
  \/ getRemovalPolicyFromStageIncludesCall
  \/ getRemovalPolicyFromStageCompareCall
  \/ getRemovalPolicyOfStageCall
  \/ getStageOfStageCall

SpecStage == InitStage /\ [][NextStage]_vars

(***************************************************************************)
(* Specification of the aspects: tags are registered on the nodes of a     *)
(* construct tree with Tags.of(node).add and addTagsToStack, synthesis     *)
(* invokes the registered Tag aspects, and a RequiredTagsChecker visits    *)
(* nodes.                                                                  *)
(***************************************************************************)
\* the values of a RequiredTags array
RequiredTagLists ==
  { <<>>,
    <<K_Environment>>,
    <<K_Owner, K_Environment>>,
    <<K_Environment, K_environment>>,
    <<K_OwnerPadded, K_Owner>>,
    <<K_Owner, K_Owner>>,
    <<K_Owner, K_environment, K_Environment>> }

\* the values of a Tags object: entries with distinct keys in insertion order
TagObjects ==
  { <<>> }
  \cup { <<[key |-> k, value |-> v]>> : k \in TagKeys, v \in TagValues }
  \cup UNION { { <<[key |-> k1, value |-> v1], [key |-> k2, value |-> v2]>> :
                   k2 \in TagKeys \ {k1},
                   v1 \in TagValues, v2 \in TagValues } : k1 \in TagKeys }

RECURSIVE SumLen(_, _)
SumLen(reg, nodes) ==
  IF nodes = {} THEN 0
  ELSE LET n == CHOOSE n \in nodes : TRUE
       IN  Len(reg[n]) + SumLen(reg, nodes \ {n})

InitTags ==
  /\ requiredTags \in RequiredTagLists
  /\ registered = [n \in Nodes |-> <<>>]
  /\ applied = [n \in Nodes |-> 0]
  /\ tagsOf = [n \in Nodes |-> NoTags]
  /\ annotations = [n \in Nodes |-> <<>>]
  /\ visited = {}
  /\ TableIdle
  /\ DistributionIdle
  /\ StackIdle
  /\ called = "none"
  /\ parts = NoParts
  /\ outcome = NoOutcome
  /\ rawStage = <<>>
  /\ stageOut = <<>>
  /\ policy = "none"

nameVars == <<parts, outcome, rawStage, stageOut, policy>>

\* addTagsToStack(stack, tags)
addTagsToStack(stack, tags) ==
  /\ SumLen(registered, Nodes) + Len(tags) <= MaxTagEntries
  /\ registered' = addEntries(registered, stack, tags)
  /\ called' = "addTagsToStack"
  /\ UNCHANGED <<applied, tagsOf, annotations, requiredTags, visited,
                 nameVars, tableVars, distVars, stackVars>>

\* the Tag aspects of node that synthesis has not invoked yet
Unapplied(node) == SubSeq(registered[node], applied[node] + 1, Len(registered[node]))

\* the Tag aspects synthesis invokes on node: the inherited ones, then its own
RECURSIVE InheritedUnapplied(_)
InheritedUnapplied(ancestors) ==
  IF ancestors = <<>> THEN <<>>
  ELSE Unapplied(Head(ancestors)) \o InheritedUnapplied(Tail(ancestors))

\* app.synth(): every registered Tag aspect is invoked once on each node of
\* its scope, in registration order
synth ==
  /\ \E n \in Nodes : applied[n] < Len(registered[n])
  /\ tagsOf' = [n \in Nodes |->
                  applyTags(tagsOf[n],
                            InheritedUnapplied(Ancestors(n)) \o Unapplied(n))]
  /\ applied' = [n \in Nodes |-> Len(registered[n])]
  /\ called' = "synth"
  /\ UNCHANGED <<registered, annotations, requiredTags, visited,
                 nameVars, tableVars, distVars, stackVars>>

\* new RequiredTagsChecker(requiredTags).visit(node); the checker is invoked
\* once on a node, as synthesis invokes an aspect
visit(node) ==
  /\ node \notin visited
  /\ annotations' =
       [annotations EXCEPT
          ![node] = @ \o visitErrors(node, tagsOf[node], requiredTags)]
  /\ visited' = visited \cup {node}
  /\ called' = "visit"
  /\ UNCHANGED <<registered, applied, tagsOf, requiredTags, nameVars,
                 tableVars, distVars, stackVars>>

NextTags ==
  \/ \E st \in Stacks, tags \in TagObjects : addTagsToStack(st, tags)
  \/ synth
  \/ \E n \in Nodes : visit(n)

SpecTags == InitTags /\ [][NextTags]_vars

(***************************************************************************)
(* Specification of the IdempotencyTable construct: a props object is      *)
(* drawn and the constructor is applied to it.                             *)
(***************************************************************************)
\* the props objects that hold key k with a value of values, or do not hold it
Opt(k, values) ==
  { EmptyProps } \cup { [x \in {k} |-> v] : v \in values }

UserPropsValues ==
  { Spread(a, Spread(b, Spread(c, Spread(d, Spread(e, Spread(f, Spread(g, Spread(h, i)))))))) :
      a \in Opt("tableName", {"my-idempotency-table"}),
      b \in Opt("removalPolicy", {RETAIN, DESTROY}),
      c \in Opt("encryption", {CUSTOMER_MANAGED, JsUndefined}),
      d \in Opt("pointInTimeRecoverySpecification",
                { [pointInTimeRecoveryEnabled |-> TRUE],
                  [pointInTimeRecoveryEnabled |-> FALSE] }),
      e \in Opt("contributorInsightsSpecification", { [enabled |-> TRUE] }),
      f \in Opt("readCapacity", {5}),
      g \in Opt("partitionKey", { [name |-> "pk", type |-> AttrNUMBER] }),
      h \in Opt("timeToLiveAttribute", {"ttl"}),
      i \in Opt("sortKey", { [name |-> "sk", type |-> AttrSTRING] }) }

InitTable ==
  /\ TableIdle
  /\ DistributionIdle
  /\ StackIdle
  /\ TagsIdle
  /\ called = "none"
  /\ parts = NoParts
  /\ outcome = NoOutcome
  /\ rawStage = <<>>
  /\ stageOut = <<>>
  /\ policy = "none"

\* new IdempotencyTable(scope, id, props); a scope takes one construct of
\* an id
IdempotencyTableNew(props) ==
  /\ table = NoTable
  /\ called = "none"
  /\ userProps' = props
  /\ table' = IdempotencyTable(props)
  /\ called' = "IdempotencyTable"
  /\ UNCHANGED <<nameVars, tagVars, distVars, stackVars>>

NextTable == \E props \in UserPropsValues : IdempotencyTableNew(props)

SpecTable == InitTable /\ [][NextTable]_vars

(***************************************************************************)
(* Specification of the ApiCloudFrontDistribution construct: a props       *)
(* object is drawn and the constructor is applied to it.                   *)
(***************************************************************************)
DistPropsValues ==
  { Spread(a, Spread(b, Spread(c, Spread(d, Spread(e, f))))) :
      a \in { [x \in {"stageName"} |-> v] :
               v \in { <<"d","e","v">>, Prod, <<"P","R","-","1">>,
                        <<"p","r","_","1">> } },
      b \in Opt("priceClass",
               {PRICE_CLASS_100, PRICE_CLASS_200, PRICE_CLASS_ALL}),
      c \in Opt("enabled", {TRUE, FALSE}),
      d \in Opt("edgeFunction", {"EdgeVer"}),
      e \in Opt("monitoringFacade", {"facade"}),
      f \in Opt("alarmConfiguration", {"addError4xxRate"}) }

InitDistribution ==
  /\ DistributionIdle
  /\ TableIdle
  /\ StackIdle
  /\ TagsIdle
  /\ called = "none"
  /\ parts = NoParts
  /\ outcome = NoOutcome
  /\ rawStage = <<>>
  /\ stageOut = <<>>
  /\ policy = "none"

\* new ApiCloudFrontDistribution(scope, id, props); a scope takes one
\* construct of an id
ApiCloudFrontDistributionNew(props) ==
  /\ distribution = NoDistribution
  /\ called = "none"
  /\ distProps' = props
  /\ distribution' = ApiCloudFrontDistribution(props)
  /\ called' = "ApiCloudFrontDistribution"
  /\ UNCHANGED <<nameVars, tagVars, tableVars, stackVars>>

NextDistribution ==
  \E props \in DistPropsValues : ApiCloudFrontDistributionNew(props)

SpecDistribution == InitDistribution /\ [][NextDistribution]_vars

(***************************************************************************)
(* Specification of CustomStack: the stack is constructed, then widgets    *)
(* are added and read, and the caller changes the array it was given.      *)
(***************************************************************************)
Widgets == {"w1", "w2"}

WidgetArrays == { <<>>, <<"w1">>, <<"w1", "w2">>, <<"w2", "w1">> }

StackPropsValues ==
  { Spread(a, b) :
      a \in Opt("createDashboard", {TRUE, FALSE}),
      b \in Opt("initialWidgets", { <<>>, <<"i1">> }) }

InitStack ==
  /\ StackIdle
  /\ DistributionIdle
  /\ TableIdle
  /\ TagsIdle
  /\ called = "none"
  /\ parts = NoParts
  /\ outcome = NoOutcome
  /\ rawStage = <<>>
  /\ stageOut = <<>>
  /\ policy = "none"

otherVars == <<nameVars, tagVars, tableVars, distVars>>

\* new CustomStack(scope, id, props)
CustomStackNew(props) ==
  /\ called = "none"
  /\ stackProps' = props
  /\ isDashboardEnabled' = CustomStack(props).isDashboardEnabled
  /\ dashboard' = CustomStack(props).dashboard
  /\ called' = "CustomStack"
  /\ UNCHANGED <<heap, returned, result, passed, otherVars>>

\* stack.addWidget(widget)
addWidget(widget) ==
  /\ called # "none"
  /\ Len(heap[WidgetsRef]) + 1 <= MaxWidgets
  /\ heap' = push(heap, WidgetsRef, <<widget>>)
  /\ dashboard' = forward(isDashboardEnabled, dashboard, <<widget>>)
  /\ passed' = Append(passed, widget)
  /\ result' = [kind |-> "void", value |-> <<>>]
  /\ called' = "addWidget"
  /\ UNCHANGED <<stackProps, isDashboardEnabled, returned, otherVars>>

\* stack.addWidgets(widgets)
addWidgets(widgets) ==
  /\ called # "none"
  /\ Len(heap[WidgetsRef]) + Len(widgets) <= MaxWidgets
  /\ heap' = push(heap, WidgetsRef, widgets)
  /\ dashboard' = forward(isDashboardEnabled, dashboard, widgets)
  /\ passed' = passed \o widgets
  /\ result' = [kind |-> "void", value |-> <<>>]
  /\ called' = "addWidgets"
  /\ UNCHANGED <<stackProps, isDashboardEnabled, returned, otherVars>>

\* stack.getWidgets()
getWidgets ==
  /\ called # "none"
  /\ LET copy == spreadCopy(heap, WidgetsRef)
     IN  /\ heap' = copy.heap
         /\ returned' = copy.ref
         /\ result' = [kind |-> "widgets", value |-> copy.heap[copy.ref]]
  /\ called' = "getWidgets"
  /\ UNCHANGED <<stackProps, isDashboardEnabled, dashboard, passed, otherVars>>

\* stack.getDashboard()
getDashboard ==
  /\ called # "none"
  /\ result' = getDashboardResult(isDashboardEnabled, dashboard)
  /\ called' = "getDashboard"
  /\ UNCHANGED <<stackProps, isDashboardEnabled, dashboard, heap, returned,
                 passed, otherVars>>

\* the caller's widgets.pop() on the array getWidgets returned
callerPop ==
  /\ returned # 0
  /\ heap[returned] # <<>>
  /\ heap' = pop(heap, returned)
  /\ called' = "callerPop"
  /\ UNCHANGED <<stackProps, isDashboardEnabled, dashboard, returned, result,
                 passed, otherVars>>

\* the caller's widgets.push(widget) on the array getWidgets returned
callerPush(widget) ==
  /\ returned # 0
  /\ Len(heap[returned]) + 1 <= MaxWidgets
  /\ heap' = push(heap, returned, <<widget>>)
  /\ called' = "callerPush"
  /\ UNCHANGED <<stackProps, isDashboardEnabled, dashboard, returned, result,
                 passed, otherVars>>

NextStack ==
  \/ \E props \in StackPropsValues : CustomStackNew(props)
  \/ \E w \in Widgets : addWidget(w)
  \/ \E ws \in WidgetArrays : addWidgets(ws)
  \/ getWidgets
  \/ getDashboard
  \/ callerPop
  \/ \E w \in Widgets : callerPush(w)

SpecStack == InitStack /\ [][NextStack]_vars

(***************************************************************************)
(* Properties of the name generators                                       *)
(***************************************************************************)
ResourceFns == {"generateResourceName", "generateResourceNamePositional"}
BucketFns == {"generateS3BucketName", "generateS3BucketNamePositional"}

Present(x) == x # Undefined /\ x # <<>>

\* acc followed by component x: a present component is lowercased and gets
\* one '-' in front of it when something precedes it, an absent one adds nothing
AppendPart(acc, x) ==
  IF ~Present(x) THEN acc
  ELSE IF acc = <<>> THEN ToLowerCase(x)
  ELSE acc \o <<"-">> \o ToLowerCase(x)

\* the name the resource-name contract prescribes for the drawn components
ExpectedResourceName ==
  AppendPart(AppendPart(AppendPart(AppendPart(AppendPart(<<>>,
    parts.stage), parts.service), parts.resource), parts.suffix), parts.region)

\* the name the bucket-name contract prescribes for the drawn components
ExpectedBucketName ==
  AppendPart(AppendPart(AppendPart(AppendPart(AppendPart(<<>>,
    parts.stage), parts.service), RESOURCE_TYPE), parts.suffix), parts.region)

\* C1: within the length limit generateResourceName returns the non-empty
\* components in the order stage, service, resource, suffix, region, joined
\* by single '-' and lowercased; undefined and '' components are dropped and
\* contribute no separator.
C1_ComposedName ==
  (called \in ResourceFns /\ Len(ExpectedResourceName) <= 64)
    => (outcome.kind = "return" /\ outcome.name = ExpectedResourceName)

\* an empty service and suffix and an absent region are dropped, mixed case
\* is lowered: 'Develop', '', 'QUEUE', '', undefined gives 'develop-queue'
C1_Witness ==
  /\ called \in ResourceFns
  /\ parts.stage = <<"D","e","v","e","l","o","p">>
  /\ parts.service = <<>>
  /\ parts.resource = <<"Q","U","E","U","E">>
  /\ parts.suffix = <<>>
  /\ parts.region = Undefined
  /\ outcome = Return(<<"d","e","v","e","l","o","p","-","q","u","e","u","e">>)

\* C2: generateResourceName throws iff the joined, lowercased name is longer
\* than 64 characters; the error states the 64-character limit; a name of
\* exactly 64 characters is returned and no longer name is ever returned.
C2_LengthBoundary ==
  called \in ResourceFns =>
    /\ outcome.kind \in {"return", "throw"}
    /\ (outcome.kind = "throw") <=> (Len(ExpectedResourceName) > 64)
    /\ (outcome.kind = "throw") => (outcome.issues = <<TooLong(64)>>)
    /\ (outcome.kind = "return") => (Len(outcome.name) <= 64)
    /\ (Len(ExpectedResourceName) = 64) => (outcome.kind = "return")
    /\ (Len(ExpectedResourceName) = 65) => (outcome.kind = "throw")

\* a name of exactly 64 characters is returned
C2_Witness ==
  /\ called \in ResourceFns
  /\ outcome.kind = "return"
  /\ Len(outcome.name) = 64

\* a name of exactly 65 characters is rejected
C2_WitnessTooLong ==
  /\ called \in ResourceFns
  /\ outcome.kind = "throw"
  /\ Len(outcome.name) = 65

\* the S3 naming rules, stated on a name
AllowedBucketChar(c) ==
  c \in Range(LowerLetters) \cup Digits \cup {".", "-"}

ValidBucketName(n) ==
  /\ Len(n) >= 3
  /\ Len(n) <= 63
  /\ \A i \in 1..Len(n) : AllowedBucketChar(n[i])
  /\ n[1] \notin {".", "-"}
  /\ n[Len(n)] \notin {".", "-"}

\* C3: generateS3BucketName returns a name iff the joined, lowercased name
\* has 3..63 characters, only lowercase letters, digits, dots and hyphens,
\* and starts and ends with a letter or digit; otherwise it throws, so an
\* invalid bucket name is never returned.
C3_BucketNameValid ==
  called \in BucketFns =>
    /\ outcome.kind \in {"return", "throw"}
    /\ (outcome.kind = "return") <=> ValidBucketName(ExpectedBucketName)
    /\ (outcome.kind = "return") =>
         (outcome.name = ExpectedBucketName /\ ValidBucketName(outcome.name))

\* a bucket name of exactly 63 characters is returned
C3_Witness ==
  /\ called \in BucketFns
  /\ outcome.kind = "return"
  /\ Len(outcome.name) = 63

\* a name ending in '-' is rejected
C3_WitnessRejected ==
  /\ called \in BucketFns
  /\ outcome.kind = "throw"
  /\ Len(outcome.name) <= 63
  /\ outcome.name[Len(outcome.name)] = "-"

\* the lowercased stage and service in front of the 'bucket' segment
BucketPrefix == AppendPart(AppendPart(<<>>, parts.stage), parts.service)

\* the hyphen-led suffix and region after the 'bucket' segment
BucketRest ==
  (IF Present(parts.suffix) THEN <<"-">> \o ToLowerCase(parts.suffix) ELSE <<>>)
  \o (IF Present(parts.region) THEN <<"-">> \o ToLowerCase(parts.region) ELSE <<>>)

\* C4: every returned bucket name has the literal segment 'bucket' right
\* after the non-empty stage and service components and before any suffix
\* and region, also when suffix and region are omitted or empty.
C4_BucketSegment ==
  (called \in BucketFns /\ outcome.kind = "return") =>
    LET n == outcome.name
        p == IF BucketPrefix = <<>> THEN 0 ELSE Len(BucketPrefix) + 1
    IN  /\ Len(n) >= p + 6
        /\ SubSeq(n, 1, Len(BucketPrefix)) = BucketPrefix
        /\ (p > 0) => (n[p] = "-")
        /\ SubSeq(n, p + 1, p + 6) = <<"b","u","c","k","e","t">>
        /\ SubSeq(n, p + 7, Len(n)) = BucketRest

\* 'prod', 'orders' without suffix and region gives 'prod-orders-bucket'
C4_Witness ==
  /\ called \in BucketFns
  /\ parts.suffix = Undefined
  /\ parts.region = Undefined
  /\ outcome = Return(<<"p","r","o","d","-","o","r","d","e","r","s","-","b","u","c","k","e","t">>)

\* C5: with minimal components (stage 'a' and an empty service, or stage 'A'
\* and service 'B', no suffix, no region) generateS3BucketName fails with the
\* too-short (minimum 3 characters) error and not the character-class error.
C5_BucketFloor ==
  ( /\ called \in BucketFns
    /\ \/ (parts.stage = <<"a">> /\ parts.service = <<>>)
       \/ (parts.stage = <<"A">> /\ parts.service = <<"B">>)
    /\ ~Present(parts.suffix)
    /\ ~Present(parts.region) )
  => ( /\ outcome.kind = "throw"
       /\ TooShort(3) \in Range(outcome.issues)
       /\ InvalidCharacters \notin Range(outcome.issues) )

\* the pattern rule of a bucket name, stated on a name
BucketPatternOk(n) ==
  /\ Len(n) >= 2
  /\ \A i \in 1..Len(n) : AllowedBucketChar(n[i])
  /\ n[1] \notin {".", "-"}
  /\ n[Len(n)] \notin {".", "-"}

\* the first rule a bucket name violates in the order min, max, pattern
FirstViolated(n) ==
  IF Len(n) < 3 THEN TooShort(3)
  ELSE IF Len(n) > 63 THEN TooLong(63)
  ELSE InvalidCharacters

\* every rule a bucket name violates, in the order min, max, pattern
AllViolated(n) ==
  (IF Len(n) < 3 THEN <<TooShort(3)>> ELSE <<>>)
  \o (IF Len(n) > 63 THEN <<TooLong(63)>> ELSE <<>>)
  \o (IF ~BucketPatternOk(n) THEN <<InvalidCharacters>> ELSE <<>>)

\* C6 as stated: a failing generateS3BucketName surfaces the first rule
\* violated in the order min, max, pattern and no other; a name longer than
\* 63 characters with a character outside the class fails with the too-long
\* error, not the invalid-characters error.
C6_FirstRuleOnly ==
  (called \in BucketFns /\ outcome.kind = "throw") =>
    outcome.issues = <<FirstViolated(ExpectedBucketName)>>

\* C6 amended: the rules are checked in the order min, max, pattern.  The
\* positional variant reports only the first rule violated; the schema-based
\* variant reports every violated rule in that order, so for a name longer
\* than 63 characters with a character outside the class the too-long text
\* comes first and the invalid-characters text follows it.
C6_RuleOrder ==
  (called \in BucketFns /\ outcome.kind = "throw") =>
    /\ outcome.issues # <<>>
    /\ Head(outcome.issues) = FirstViolated(ExpectedBucketName)
    /\ (called = "generateS3BucketNamePositional") =>
         (Len(outcome.issues) = 1)
    /\ (called = "generateS3BucketName") =>
         (outcome.issues = AllViolated(ExpectedBucketName))

\* a name longer than 63 characters that contains '_'
C6_Witness ==
  /\ called = "generateS3BucketName"
  /\ outcome.kind = "throw"
  /\ Len(outcome.name) > 63
  /\ "_" \in Range(outcome.name)
  /\ outcome.issues = <<TooLong(63), InvalidCharacters>>

ExpectedName ==
  IF called \in ResourceFns THEN ExpectedResourceName ELSE ExpectedBucketName

\* issue r states a constraint of the called function that name n violates
StatesViolation(r, n) ==
  CASE r.rule = "max" ->
         /\ r.limit = (IF called \in ResourceFns THEN 64 ELSE 63)
         /\ Len(n) > r.limit
    [] r.rule = "min" ->
         called \in BucketFns /\ r.limit = 3 /\ Len(n) < 3
    [] r.rule = "regex" ->
         called \in BucketFns /\ ~BucketPatternOk(n)
    [] OTHER -> FALSE

\* name n violates a constraint of the called function
ViolatesConstraint(n) ==
  IF called \in ResourceFns THEN Len(n) > 64 ELSE ~ValidBucketName(n)

\* C8: a failing name generator raises an error that carries the complete
\* generated name (not truncated, not corrected) and the constraint the name
\* violates (limit 64, 63 or 3, or the pattern rule); a failing input is
\* never repaired into a returned name.
C8_ErrorCarriesName ==
  called \in (ResourceFns \cup BucketFns) =>
    /\ outcome.name = ExpectedName
    /\ (outcome.kind = "throw") =>
         /\ outcome.issues # <<>>
         /\ \A i \in DOMAIN outcome.issues :
              StatesViolation(outcome.issues[i], ExpectedName)
    /\ ViolatesConstraint(ExpectedName) => (outcome.kind = "throw")

\* 'staging', '/', '', 'eu-west-2' fails with the whole name in the message
C8_Witness ==
  /\ called \in BucketFns
  /\ outcome.kind = "throw"
  /\ outcome.name = <<"s","t","a","g","i","n","g","-","/","-","b","u","c","k","e","t","-","e","u","-","w","e","s","t","-","2">>
  /\ outcome.issues = <<InvalidCharacters>>

\* a resource name of 65 characters or more fails with the whole name
C8_WitnessTooLong ==
  /\ called \in ResourceFns
  /\ outcome.kind = "throw"
  /\ Len(outcome.name) > 64
  /\ outcome.issues = <<TooLong(64)>>

(***************************************************************************)
(* Properties of the stage utilities                                       *)
(***************************************************************************)
PolicyFns ==
  {"getRemovalPolicyFromStageIncludes", "getRemovalPolicyFromStageCompare"}
StageFns == {"getStageSwitch", "getStageTrim"}

\* raw is the literal lit in some letter case with whitespace around it
IsPaddedForm(raw, lit) ==
  \E i \in 1..(Len(raw) + 1), j \in 0..Len(raw) :
    /\ \A k \in 1..(i - 1) : raw[k] \in WhiteSpace
    /\ \A k \in (j + 1)..Len(raw) : raw[k] \in WhiteSpace
    /\ j - i + 1 = Len(lit)
    /\ \A k \in 1..Len(lit) : LowerChar(raw[i + k - 1]) = lit[k]

\* C9: getRemovalPolicyFromStage returns RETAIN exactly when the input,
\* lowercased and trimmed, is 'prod' or 'staging', and DESTROY for every
\* other input (develop, test, ephemeral labels, in any letter case).
C9_RemovalPolicy ==
  called \in PolicyFns =>
    /\ policy \in {RETAIN, DESTROY}
    /\ (policy = RETAIN) <=>
         (IsPaddedForm(rawStage, Prod) \/ IsPaddedForm(rawStage, Staging))

\* ' PROD ' is retained
C9_Witness ==
  /\ called \in PolicyFns
  /\ rawStage = <<" ","P","R","O","D"," ">>
  /\ policy = RETAIN

\* 'Develop' is destroyed
C9_WitnessDestroy ==
  /\ called \in PolicyFns
  /\ rawStage = <<"D","e","v","e","l","o","p">>
  /\ policy = DESTROY

KnownStages == {Prod, Staging, Test, Develop}

\* C10: for every input that is 'prod', 'staging', 'test' or 'develop' after
\* lowercasing and trimming, getStage returns that lowercase literal without
\* surrounding whitespace.
C10_KnownStageCanonical ==
  called \in StageFns =>
    \A lit \in KnownStages :
      IsPaddedForm(rawStage, lit) => (stageOut = lit)

\* out is raw without its surrounding whitespace, in lower case
IsTrimmedLowerOf(out, raw) ==
  /\ \E i \in 1..(Len(raw) + 1), j \in 0..Len(raw) :
       /\ \A k \in 1..(i - 1) : raw[k] \in WhiteSpace
       /\ \A k \in (j + 1)..Len(raw) : raw[k] \in WhiteSpace
       /\ Len(out) = j - i + 1
       /\ \A k \in 1..Len(out) : out[k] = LowerChar(raw[i + k - 1])
  /\ (out # <<>>) => (out[1] \notin WhiteSpace /\ out[Len(out)] \notin WhiteSpace)

\* C11: for every input that is not a known stage literal getStage returns
\* the input trimmed of surrounding whitespace and lowercased ('PR-123' gives
\* 'pr-123'); it never returns a string with an uppercase letter.
C11_EphemeralNormalised ==
  ( /\ called \in StageFns
    /\ \A lit \in KnownStages : ~IsPaddedForm(rawStage, lit) )
  => ( /\ IsTrimmedLowerOf(stageOut, rawStage)
       /\ \A k \in 1..Len(stageOut) : stageOut[k] \notin Range(UpperLetters) )

(***************************************************************************)
(* Properties of the tag aspects                                           *)
(***************************************************************************)
\* the errors the step adds to node n
AddedErrors(n) ==
  SubSeq(annotations'[n], Len(annotations[n]) + 1, Len(annotations'[n]))

\* the step is a visit of node n
Visits(n) == n \notin visited /\ visited' = visited \cup {n}

\* C12: visiting a node that is not a Stack (a Bucket, say) adds no
\* diagnostic to any node and changes no tags, whatever tags the node carries
\* and whatever keys are required.
C12_NonStackNoOp ==
  [][ Visits(Bucket) => (annotations' = annotations /\ tagsOf' = tagsOf) ]_vars

\* the bucket has been visited while it carried no tag and a key was required
C12_Witness ==
  /\ called = "visit"
  /\ visited = {Bucket}
  /\ tagsOf[Bucket] = NoTags
  /\ requiredTags # <<>>
  /\ annotations[Bucket] = <<>>

\* the number of errors of a kind in a sequence of errors
CountKind(errors, kind) ==
  Cardinality({ i \in 1..Len(errors) : errors[i].kind = kind })

\* C13: a visit of a stack adds exactly one 'no tags' error, naming the
\* stack, when the stack's tag map is empty, and none when it holds at least
\* one tag; the required-keys list plays no part in it.
C13_NoTagsError ==
  [][ \A s \in Stacks :
        Visits(s) =>
          LET new == AddedErrors(s)
          IN  /\ CountKind(new, "noTags") =
                   (IF DOMAIN tagsOf[s] = {} THEN 1 ELSE 0)
              /\ \A i \in 1..Len(new) :
                   new[i].kind = "noTags" => new[i].stack = s ]_vars

\* a stack without tags has been visited by a checker that requires nothing
C13_Witness ==
  /\ called = "visit"
  /\ visited = {Stack1}
  /\ requiredTags = <<>>
  /\ tagsOf[Stack1] = NoTags
  /\ annotations[Stack1] =
       <<[kind |-> "noTags", tag |-> <<>>, stack |-> Stack1]>>

\* the positions of key k in the required list
PositionsOf(k) == { j \in 1..Len(requiredTags) : requiredTags[j] = k }

\* the 'missing' errors for key k in a sequence of errors
MissingFor(errors, k) ==
  { i \in 1..Len(errors) : errors[i].kind = "missing" /\ errors[i].tag = k }

\* C14: a visit of a stack adds one 'missing' error, naming the key and the
\* stack, for each entry of the required list whose key is not among the
\* stack's tag keys, and none for a key that is among them; the loop does not
\* stop at the first missing key, and the visit always completes.
C14_MissingPerKey ==
  [][ \A s \in Stacks :
        Visits(s) =>
          LET new == AddedErrors(s)
          IN  /\ \A k \in Range(requiredTags) :
                   Cardinality(MissingFor(new, k)) =
                     (IF k \in DOMAIN tagsOf[s] THEN 0
                      ELSE Cardinality(PositionsOf(k)))
              /\ \A i \in 1..Len(new) :
                   new[i].kind = "missing" =>
                     (new[i].stack = s /\ new[i].tag \in Range(requiredTags)) ]_vars

\* a stack carrying one of three required keys has been visited: both absent
\* keys are reported, the present one is not
C14_Witness ==
  /\ called = "visit"
  /\ visited = {Stack1}
  /\ requiredTags = <<K_Owner, K_environment, K_Environment>>
  /\ DOMAIN tagsOf[Stack1] = {K_Environment}
  /\ annotations[Stack1] =
       << [kind |-> "missing", tag |-> K_Owner, stack |-> Stack1],
          [kind |-> "missing", tag |-> K_environment, stack |-> Stack1] >>

\* the keys named by the 'missing' errors of a sequence of errors, in order
MissingTags(errors) ==
  LET sel == SelectSeq(errors, LAMBDA e : e.kind = "missing")
  IN  [i \in 1..Len(sel) |-> sel[i].tag]

\* C15: the errors one visit adds to a stack are ordered: the 'no tags'
\* error, when there is one, comes first, and the 'missing' errors follow in
\* the order of the required list.
C15_ErrorOrder ==
  [][ \A s \in Stacks :
        Visits(s) =>
          LET new == AddedErrors(s)
          IN  /\ \A i \in 1..Len(new) : new[i].kind = "noTags" => i = 1
              /\ MissingTags(new) =
                   SelectSeq(requiredTags,
                             LAMBDA k : k \notin DOMAIN tagsOf[s]) ]_vars

\* a stack without tags has been visited by a checker that requires two keys
C15_Witness ==
  /\ called = "visit"
  /\ visited = {Stack2}
  /\ requiredTags = <<K_Owner, K_Environment>>
  /\ tagsOf[Stack2] = NoTags
  /\ annotations[Stack2] =
       << [kind |-> "noTags", tag |-> <<>>, stack |-> Stack2],
          [kind |-> "missing", tag |-> K_Owner, stack |-> Stack2],
          [kind |-> "missing", tag |-> K_Environment, stack |-> Stack2] >>

\* keys a and b differ, but only in letter case or surrounding whitespace
NearMiss(a, b) == a # b /\ ToLowerCase(Trim(a)) = ToLowerCase(Trim(b))

\* C16: required keys are compared with tag keys exactly, case-sensitively
\* and without trimming: a required key that the stack carries is not
\* reported, and a required key that the stack carries only in another letter
\* case or with other surrounding whitespace is reported as missing.
C16_ExactKeyMatch ==
  [][ \A s \in Stacks :
        Visits(s) =>
          LET new == AddedErrors(s)
          IN  \A k \in Range(requiredTags) :
                /\ k \in DOMAIN tagsOf[s] => MissingFor(new, k) = {}
                /\ ( /\ k \notin DOMAIN tagsOf[s]
                     /\ \E t \in DOMAIN tagsOf[s] : NearMiss(t, k) )
                   => MissingFor(new, k) # {} ]_vars

\* a stack tagged 'Environment' has been visited by a checker that requires
\* 'Environment' and 'environment': only the second is reported
C16_Witness ==
  /\ called = "visit"
  /\ visited = {Stack1}
  /\ requiredTags = <<K_Environment, K_environment>>
  /\ DOMAIN tagsOf[Stack1] = {K_Environment}
  /\ annotations[Stack1] =
       << [kind |-> "missing", tag |-> K_environment, stack |-> Stack1] >>

\* a stack tagged 'Owner' has been visited by a checker that requires
\* ' Owner': the padded key is reported
C16_WitnessPadded ==
  /\ called = "visit"
  /\ visited = {Stack1}
  /\ requiredTags = <<K_OwnerPadded, K_Owner>>
  /\ DOMAIN tagsOf[Stack1] = {K_Owner}
  /\ annotations[Stack1] =
       << [kind |-> "missing", tag |-> K_OwnerPadded, stack |-> Stack1] >>

\* C17: errors are kept per stack. Every error recorded on a node is on a
\* stack and names that stack; a step changes the errors of a node only by
\* visiting that node, so a stack that is not visited has none; and the
\* errors a visit adds to a stack follow from that stack's own tags, whatever
\* tags the other stack carries.
C17_PerStack ==
  /\ [](\A n \in Nodes :
          \A i \in 1..Len(annotations[n]) :
            n \in Stacks /\ annotations[n][i].stack = n)
  /\ [][ \A n \in Nodes :
           /\ annotations'[n] # annotations[n] => Visits(n)
           /\ Visits(n) =>
                \A i \in 1..Len(AddedErrors(n)) :
                  LET e == AddedErrors(n)[i]
                  IN  IF e.kind = "noTags" THEN DOMAIN tagsOf[n] = {}
                      ELSE e.tag \notin DOMAIN tagsOf[n] ]_vars

\* both stacks have been visited; the tagged one has no error, the one
\* without tags has its own two
C17_Witness ==
  /\ called = "visit"
  /\ visited = Stacks
  /\ requiredTags = <<K_Environment>>
  /\ DOMAIN tagsOf[Stack1] = {K_Environment}
  /\ tagsOf[Stack2] = NoTags
  /\ annotations[Stack1] = <<>>
  /\ annotations[Stack2] =
       << [kind |-> "noTags", tag |-> <<>>, stack |-> Stack2],
          [kind |-> "missing", tag |-> K_Environment, stack |-> Stack2] >>

\* only the first stack has been visited; the second, also without the
\* required key, has no error
C17_WitnessUnvisited ==
  /\ called = "visit"
  /\ visited = {Stack1}
  /\ requiredTags = <<K_Environment>>
  /\ tagsOf[Stack1] = NoTags
  /\ tagsOf[Stack2] = NoTags
  /\ Len(annotations[Stack1]) = 2
  /\ annotations[Stack2] = <<>>

\* the Tag aspects of stack s that synthesis has invoked, in call order
AppliedEntries(s) == SubSeq(registered[s], 1, applied[s])

\* the value of the last entry of entries that sets key k
LastValue(entries, k) ==
  LET idx == { i \in 1..Len(entries) : entries[i].key = k }
  IN  entries[CHOOSE i \in idx : \A j \in idx : j <= i].value

\* C18: after any sequence of addTagsToStack calls the tag map of a stack
\* holds exactly the keys the calls have set, each with the value of the last
\* call that set it: a later call overwrites an equal key, keys it does not
\* mention keep their values, and a call with an empty map changes nothing.
C18_LastWriteWins ==
  \A s \in Stacks :
    /\ DOMAIN tagsOf[s] =
         { AppliedEntries(s)[i].key : i \in 1..applied[s] }
    /\ \A k \in DOMAIN tagsOf[s] :
         tagsOf[s][k] = LastValue(AppliedEntries(s), k)

\* two calls have set 'Environment' on a stack, a third passed an empty map:
\* the stack holds the value of the second
C18_Witness ==
  /\ called = "addTagsToStack"
  /\ registered[Stack1] =
       << [key |-> K_Environment, value |-> "production"],
          [key |-> K_Environment, value |-> "development"] >>
  /\ applied[Stack1] = 2
  /\ DOMAIN tagsOf[Stack1] = {K_Environment}
  /\ tagsOf[Stack1][K_Environment] = "development"

\* a second call has set another key: the first key keeps its value
C18_WitnessPreserved ==
  /\ registered[Stack1] =
       << [key |-> K_Environment, value |-> "production"],
          [key |-> K_Owner, value |-> "development"] >>
  /\ applied[Stack1] = 2
  /\ DOMAIN tagsOf[Stack1] = {K_Environment, K_Owner}
  /\ tagsOf[Stack1][K_Environment] = "production"
  /\ tagsOf[Stack1][K_Owner] = "development"

(***************************************************************************)
(* Properties of the IdempotencyTable construct                            *)
(***************************************************************************)
MandatoryKeys == {"partitionKey", "timeToLiveAttribute"}

C21_EnabledAndPriceClass ==
  (called = "ApiCloudFrontDistribution" /\ distribution.kind = "created") =>
    /\ distribution.enabled =
         (IF "enabled" \in DOMAIN distProps THEN distProps["enabled"]
          ELSE TRUE)
    /\ distribution.priceClass =
         (IF "priceClass" \in DOMAIN distProps THEN distProps["priceClass"]
          ELSE PRICE_CLASS_100)

(***************************************************************************)
(* Properties of CustomStack                                               *)
(***************************************************************************)
\* the widgets given as initialWidgets at construction
InitialWidgets ==
  IF "initialWidgets" \in DOMAIN stackProps THEN stackProps["initialWidgets"]
  ELSE <<>>

\* C22: getWidgets() returns exactly the widgets passed to addWidget and
\* addWidgets, in call order, with or without a dashboard; the initial
\* widgets are never among them, an empty array adds nothing; and a
\* dashboard, when there is one, holds every widget so passed after its
\* description widget and its initial widgets.
C22_WidgetRegistry ==
  /\ called = "getWidgets" => (result.kind = "widgets" /\ result.value = passed)
  /\ dashboard.exists =>
       dashboard.widgets = <<DescriptionWidget>> \o InitialWidgets \o passed
  /\ ~dashboard.exists => dashboard.widgets = <<>>

\* a stack with a dashboard and an initial widget got one widget and then an
\* array of one; getWidgets returned the two in call order
C22_Witness ==
  /\ called = "getWidgets"
  /\ dashboard.exists
  /\ InitialWidgets = <<"i1">>
  /\ passed = <<"w2", "w1">>
  /\ result.value = <<"w2", "w1">>
  /\ dashboard.widgets = <<DescriptionWidget, "i1", "w2", "w1">>

\* the same without a dashboard
C22_WitnessNoDashboard ==
  /\ called = "getWidgets"
  /\ ~dashboard.exists
  /\ passed = <<"w2", "w1">>
  /\ result.value = <<"w2", "w1">>

\* C23: getWidgets() returns a copy: when the caller removes an element
\* from, or adds one to, the array it was given, the stack's widgets stay as
\* they were, and a later getWidgets() returns the stack's widgets.
C23_ReturnsCopy ==
  [][ /\ called' \in {"callerPop", "callerPush"} =>
           heap'[WidgetsRef] = heap[WidgetsRef]
      /\ called' = "getWidgets" =>
           (result'.value = heap[WidgetsRef] /\ heap'[WidgetsRef] = heap[WidgetsRef])
    ]_vars

\* the caller has popped the only element of the array it was given; the
\* stack still holds its widget
C23_Witness ==
  /\ called = "callerPop"
  /\ returned = ReturnedRef
  /\ heap[ReturnedRef] = <<>>
  /\ heap[WidgetsRef] = <<"w1">>
  /\ passed = <<"w1">>

\* the caller has pushed a widget on the array it was given
C23_WitnessPush ==
  /\ called = "callerPush"
  /\ heap[ReturnedRef] = <<"w1", "w2">>
  /\ heap[WidgetsRef] = <<"w1">>

\* the calls on a constructed CustomStack
StackCalls ==
  {"CustomStack", "addWidget", "addWidgets", "getWidgets", "getDashboard",
   "callerPop", "callerPush"}

\* createDashboard: true was passed to the constructor
CreateDashboardTrue ==
  "createDashboard" \in DOMAIN stackProps /\ stackProps["createDashboard"]

C24_WitnessEnabled ==
  /\ called = "getDashboard"
  /\ CreateDashboardTrue
  /\ passed = <<"w1">>
  /\ isDashboardEnabled
  /\ result.kind = "dashboard"
  /\ result.value = <<DescriptionWidget>> \o InitialWidgets \o <<"w1">>

(***************************************************************************)
(* addTagsToStack followed by RequiredTagsChecker                          *)
(***************************************************************************)
\* the keys that the addTagsToStack calls applied to stack s have set
AppliedKeys(s) == { AppliedEntries(s)[i].key : i \in 1..applied[s] }

\* C25 as stated: once the tags of addTagsToStack calls have been applied to
\* a stack, a visit of the stack reports as missing exactly the required keys
\* that none of the calls has set, reports 'no tags' only when no call has
\* set anything, and adds nothing whenever the calls cover every required key.
C25_CoveredMeansClean ==
  [][ \A s \in Stacks :
        Visits(s) =>
          LET new == AddedErrors(s)
          IN  /\ MissingTags(new) =
                   SelectSeq(requiredTags, LAMBDA k : k \notin AppliedKeys(s))
              /\ CountKind(new, "noTags") = (IF applied[s] = 0 THEN 1 ELSE 0)
              /\ Range(requiredTags) \subseteq AppliedKeys(s) => new = <<>>
    ]_vars

\* C25 amended: as above, but the visit adds nothing when the calls have set
\* at least one tag and cover every required key; a stack on which nothing
\* was set gets the 'no tags' error also when nothing is required.
C25_TagsThenCheck ==
  [][ \A s \in Stacks :
        Visits(s) =>
          LET new == AddedErrors(s)
          IN  /\ MissingTags(new) =
                   SelectSeq(requiredTags, LAMBDA k : k \notin AppliedKeys(s))
              /\ CountKind(new, "noTags") = (IF applied[s] = 0 THEN 1 ELSE 0)
              /\ ( /\ applied[s] > 0
                   /\ Range(requiredTags) \subseteq AppliedKeys(s) )
                 => new = <<>>
              /\ (applied[s] = 0 /\ requiredTags = <<>>) =>
                   (Len(new) = 1 /\ new[1].kind = "noTags")
    ]_vars

\* addTagsToStack has set both required keys on a stack and the visit of the
\* stack added nothing
C25_Witness ==
  /\ called = "visit"
  /\ visited = {Stack1}
  /\ requiredTags = <<K_Owner, K_Owner>>
  /\ Len(registered[Stack1]) = 2
  /\ applied[Stack1] = 2
  /\ AppliedKeys(Stack1) = {K_Environment, K_Owner}
  /\ annotations[Stack1] = <<>>

\* addTagsToStack has set one of two required keys; the visit reports the other
C25_WitnessPartial ==
  /\ called = "visit"
  /\ visited = {Stack1}
  /\ requiredTags = <<K_Environment, K_environment>>
  /\ AppliedKeys(Stack1) = {K_Environment}
  /\ annotations[Stack1] =
       << [kind |-> "missing", tag |-> K_environment, stack |-> Stack1] >>

(***************************************************************************)
(* Relations between the stage utilities                                   *)
(***************************************************************************)
\* C26: the switch variant and the trim-and-lowercase variant of getStage
\* return the same string for every stage string, upper-case letters and
\* surrounding whitespace included.
C26_GetStageVariantsAgree ==
  /\ called = "getStageSwitch" => stageOut = getStageTrim(rawStage)
  /\ called = "getStageTrim" => stageOut = getStageSwitch(rawStage)

\* C27: normalising a stage with getStage before resolving the policy does
\* not change the policy, getRemovalPolicyFromStage(getStage(s)) =
\* getRemovalPolicyFromStage(s), and getStage is idempotent,
\* getStage(getStage(s)) = getStage(s), for both variants of getStage.
C27_NormaliseThenResolve ==
  /\ called \in {"getRemovalPolicyOfGetStageSwitch",
                  "getRemovalPolicyOfGetStageTrim"} =>
       policy = (IF Trim(ToLowerCase(rawStage)) \in {Prod, Staging}
                 THEN RETAIN ELSE DESTROY)
  /\ called = "getStageSwitchTwice" => stageOut = getStageSwitch(rawStage)
  /\ called = "getStageTrimTwice" => stageOut = getStageTrim(rawStage)

\* ' PROD' has been normalised and the policy resolved from the result
C27_Witness ==
  /\ called = "getRemovalPolicyOfGetStageTrim"
  /\ rawStage = <<" ", "P", "R", "O", "D">>
  /\ stageOut = Prod
  /\ policy = RETAIN

\* 'Production' has been normalised twice
C27_WitnessTwice ==
  /\ called = "getStageTrimTwice"
  /\ rawStage = <<"P","r","o","d","u","c","t","i","o","n">>
  /\ stageOut = <<"p","r","o","d","u","c","t","i","o","n">>

(***************************************************************************)
(* Relations between the name generators                                   *)
(***************************************************************************)
\* the rules an outcome reports
RulesOf(o) == { o.issues[i] : i \in 1..Len(o.issues) }

\* C28: the two generateS3BucketName variants accept the same inputs and
\* return the same name for them; for a rejected input both throw, and the
\* rule the sequential variant reports is among the rules the schema-based
\* variant reports.
C28_BucketVariantsAgree ==
  called = "generateS3BucketNamePositional" =>
    LET other == S3BucketName(parts.stage, parts.service, parts.suffix,
                              parts.region)
    IN  /\ outcome.kind = other.kind
        /\ outcome.kind = "return" => outcome.name = other.name
        /\ outcome.kind = "throw" =>
             (Len(outcome.issues) = 1 /\ RulesOf(outcome) \subseteq RulesOf(other))

\* a name that is too long and has a character outside the class: the
\* sequential variant reports the length, the schema-based one both rules
C28_Witness ==
  /\ called = "generateS3BucketNamePositional"
  /\ outcome.kind = "throw"
  /\ outcome.issues = <<TooLong(BUCKET_MAX_LENGTH)>>
  /\ ~S3NamePattern(outcome.name)

\* an accepted bucket name
C28_WitnessAccepted ==
  /\ called = "generateS3BucketNamePositional"
  /\ outcome.kind = "return"
  /\ Len(outcome.name) > Len(RESOURCE_TYPE)

\* the outcome of generateS3BucketName on the components of the state
BucketOutcome ==
  S3BucketName(parts.stage, parts.service, parts.suffix, parts.region)

\* C29: whenever generateS3BucketName succeeds for (stage, service, suffix,
\* region), generateResourceName with the same components and resource
\* 'bucket' succeeds as well and returns the same string.
C29_BucketIsResourceName ==
  /\ (called = "generateS3BucketName" /\ outcome.kind = "return") =>
       LET r == ResourceName(parts.stage, parts.service, RESOURCE_TYPE,
                             parts.suffix, parts.region)
       IN  r.kind = "return" /\ r.name = outcome.name
  /\ ( /\ called = "generateResourceName"
       /\ parts.resource = RESOURCE_TYPE
       /\ BucketOutcome.kind = "return" )
     => (outcome.kind = "return" /\ outcome.name = BucketOutcome.name)

\* generateResourceName has been called with resource 'bucket' and a suffix
\* on components that generateS3BucketName accepts
C29_Witness ==
  /\ called = "generateResourceName"
  /\ parts.resource = RESOURCE_TYPE
  /\ Present(parts.stage)
  /\ Present(parts.service)
  /\ Present(parts.suffix)
  /\ BucketOutcome.kind = "return"
  /\ outcome.name = BucketOutcome.name

\* the components of the call that are neither absent nor empty, in order
PresentParts ==
  SelectSeq(<<parts.stage, parts.service, parts.resource, parts.suffix,
              parts.region>>, Present)

DashCount(s) == Len(SelectSeq(s, LAMBDA c : c = "-"))

\* the characters, and the '-' characters, of all strings of a list together
RECURSIVE TotalLen(_)
TotalLen(list) ==
  IF list = <<>> THEN 0 ELSE Len(Head(list)) + TotalLen(Tail(list))

RECURSIVE TotalDashes(_)
TotalDashes(list) ==
  IF list = <<>> THEN 0 ELSE DashCount(Head(list)) + TotalDashes(Tail(list))

\* s has no '-' at its start, at its end, or next to another '-'
NoStrayDash(s) ==
  /\ s # <<>> => (s[1] # "-" /\ s[Len(s)] # "-")
  /\ \A i \in 1..(Len(s) - 1) : ~(s[i] = "-" /\ s[i + 1] = "-")

\* C30: generateResourceName has no minimum length and no required
\* component: when every component is empty or absent it returns the empty
\* string without error; when only some are, a returned name consists of the
\* remaining components and one '-' between neighbours, so the missing ones
\* introduce no leading, trailing or doubled '-'.
C30_EmptyComponentsTolerated ==
  called \in ResourceFns =>
    /\ PresentParts = <<>> => outcome = Return(<<>>)
    /\ (PresentParts # <<>> /\ outcome.kind = "return") =>
         LET n == Len(PresentParts)
             first == ToLowerCase(PresentParts[1])
             last == ToLowerCase(PresentParts[n])
             name == outcome.name
         IN  /\ Len(name) = TotalLen(PresentParts) + n - 1
             /\ DashCount(name) = TotalDashes(PresentParts) + n - 1
             /\ SubSeq(name, 1, Len(first)) = first
             /\ SubSeq(name, Len(name) - Len(last) + 1, Len(name)) = last
             /\ (TotalDashes(PresentParts) = 0 => NoStrayDash(name))

\* every component is '' or undefined and the call returned ''
C30_Witness ==
  /\ called \in ResourceFns
  /\ parts.stage = <<>>
  /\ parts.service = <<>>
  /\ parts.resource = <<>>
  /\ parts.suffix = Undefined
  /\ parts.region = <<>>
  /\ outcome = Return(<<>>)

\* the first, a middle and the last component are missing:
\* '', 'orders', '', 'dlq', undefined gives 'orders-dlq'
C30_WitnessSome ==
  /\ called \in ResourceFns
  /\ parts.stage = <<>>
  /\ parts.service = <<"o","r","d","e","r","s">>
  /\ parts.resource = <<>>
  /\ parts.suffix = <<"d","l","q">>
  /\ parts.region = Undefined
  /\ outcome = Return(<<"o","r","d","e","r","s","-","d","l","q">>)

====
